---- MODULE Spec2Model ----
\* Lexer and recursive-descent parser of parser_lexer.py as a state machine.
\* A text is a sequence of one-character strings; positions are zero-based
\* as in the source (re match offsets, Lexer.position).
EXTENDS Integers, Sequences, FiniteSets, TLC

VARIABLES text, pc, tokens, position, current_token, stack, ret, result,
          outcome, err

vars == <<text, pc, tokens, position, current_token, stack, ret, result,
          outcome, err>>

\* ---------------------------------------------------------------- bounds

\* Longest text, in chunks of LexChunks, of the character-level inputs.
MaxChunks == 3
\* Longest text, in lexemes of ParseLexemes, of the token-level inputs.
MaxToks == 4
\* Longest text, in lexemes of ExprLexemes, of the operator-chain inputs.
MaxExprToks == 5

\* ------------------------------------------------------ character classes

\* [a-zA-Z]: the letters the inputs use.
Letters == {"a", "b", "e", "f", "l", "n", "r", "s", "t", "u"}
\* [0-9]
Digits == {"0", "1"}
\* [a-zA-Z0-9-_]
IdChars == Letters \cup Digits \cup {"-", "_"}
\* [&|~()]
OpChars == {"&", "|", "~", "(", ")"}
\* [ \t\n\r]
WhitespaceChars == {" ", "\t", "\n", "\r"}

\* --------------------------------------------------------------- lexer

Token(type, value, pos) == [type |-> type, value |-> value, position |-> pos]

\* Python's None (Lexer.peek past the end).
None == [type |-> "None", value |-> <<>>, position |-> -1]

\* Does the literal lit occur in txt at zero-based offset p?
StartsWith(txt, p, lit) ==
    /\ p + Len(lit) <= Len(txt)
    /\ \A i \in 1..Len(lit) : txt[p + i] = lit[i]

\* Greedy repetition: the end offset of the longest run of characters of
\* class cls that starts at offset p.
RECURSIVE RunEnd(_, _, _)
RunEnd(txt, p, cls) ==
    IF p < Len(txt) /\ txt[p + 1] \in cls THEN RunEnd(txt, p + 1, cls) ELSE p

\* '.*' of the comment pattern: any characters but a newline.
RECURSIVE LineEnd(_, _)
LineEnd(txt, p) ==
    IF p < Len(txt) /\ txt[p + 1] # "\n" THEN LineEnd(txt, p + 1) ELSE p

\* The keyword pattern r'fn': a plain literal, no word boundary.
MatchFN(txt, p) == StartsWith(txt, p, <<"f", "n">>)

\* The boolean pattern r'true|false': plain literals, no word boundary.
MatchBOOL(txt, p) ==
    IF StartsWith(txt, p, <<"t", "r", "u", "e">>) THEN 4
    ELSE IF StartsWith(txt, p, <<"f", "a", "l", "s", "e">>) THEN 5
    ELSE 0

\* One match of tok_regex at offset p < Len(txt): the first alternative, in
\* the order of token_specification, that matches there.
MatchAt(txt, p) ==
    LET c == txt[p + 1] IN
    IF c = "#" THEN [kind |-> "COMMENT", end |-> LineEnd(txt, p + 1)]
    ELSE IF MatchFN(txt, p) THEN [kind |-> "FN", end |-> p + 2]
    ELSE IF MatchBOOL(txt, p) > 0
        THEN [kind |-> "BOOL", end |-> p + MatchBOOL(txt, p)]
    ELSE IF c \in Letters
        THEN [kind |-> "ID", end |-> RunEnd(txt, p + 1, IdChars)]
    ELSE IF c \in OpChars THEN [kind |-> "OP", end |-> p + 1]
    ELSE IF c = "," THEN [kind |-> "COMMA", end |-> p + 1]
    ELSE IF c \in WhitespaceChars
        THEN [kind |-> "WHITESPACE", end |-> RunEnd(txt, p + 1, WhitespaceChars)]
    ELSE [kind |-> "MISMATCH", end |-> p + 1]

\* EndOfInput placed at the number of tokens instead of the length of the text.
EndOfInputAtCount(txt, toks) == Token("EOF", <<>>, Len(toks))

\* Line 39: the token appended after the loop.
EndOfInput(txt, toks) == Token("EOF", <<>>, Len(txt))

\* The loop over re.finditer from offset p with the tokens toks so far.
RECURSIVE Scan(_, _, _)
Scan(txt, p, toks) ==
    IF p >= Len(txt)
    THEN [ok |-> TRUE,
          tokens |-> Append(toks, EndOfInput(txt, toks)),
          position |-> Len(txt), value |-> <<>>]
    ELSE LET m == MatchAt(txt, p)
             value == SubSeq(txt, p + 1, m.end)
         IN  IF m.kind \in {"WHITESPACE", "COMMENT"} THEN Scan(txt, m.end, toks)
             ELSE IF m.kind = "MISMATCH"
                 THEN [ok |-> FALSE, tokens |-> <<>>, position |-> p,
                       value |-> value]
             ELSE Scan(txt, m.end, Append(toks, Token(m.kind, value, p)))

tokenize(txt) == Scan(txt, 0, <<>>)

\* Lexer.peek
peek == IF position < Len(tokens) THEN tokens[position + 1] ELSE None

\* --------------------------------------------------------------- inputs

\* Character-level inputs: concatenations of these chunks.
LexChunks == {<<"f", "n">>, <<"t", "r", "u", "e">>, <<"a">>, <<"1">>, <<"-">>,
              <<"$">>, <<"#">>, <<" ">>, <<"\n">>, <<"&">>, <<"(">>, <<",">>}

\* Token-level inputs: these lexemes, separated by single blanks.
ParseLexemes == {<<"f", "n">>, <<"t", "r", "u", "e">>, <<"a">>, <<"&">>,
                 <<"|">>, <<"~">>, <<"(">>, <<")">>, <<",">>}

RECURSIVE Concat(_)
Concat(cs) == IF cs = <<>> THEN <<>> ELSE Head(cs) \o Concat(Tail(cs))

RECURSIVE Join(_)
Join(ls) ==
    IF ls = <<>> THEN <<>>
    ELSE IF Len(ls) = 1 THEN Head(ls)
    ELSE Head(ls) \o <<" ">> \o Join(Tail(ls))

\* Operator-chain inputs: operands and the three operators.
ExprLexemes == {<<"a">>, <<"t", "r", "u", "e">>, <<"&">>, <<"|">>, <<"~">>}

\* Whole programs: a definition with two formals whose body applies a function
\* to two arguments, and a parenthesized expression beside an empty application.
Samples ==
    {<< <<"f", "n">>, <<"f">>, <<"(">>, <<"a">>, <<",">>, <<"b">>, <<")">>,
        <<"a">>, <<"&">>, <<"f">>, <<"(">>, <<"b">>, <<",">>,
        <<"t", "r", "u", "e">>, <<")">> >>,
     << <<"(">>, <<"a">>, <<"|">>, <<"~">>, <<"b">>, <<")">>, <<"&">>,
        <<"f">>, <<"(">>, <<")">> >>}

\* A sample, and the sample with one lexeme replaced, one lexeme removed, or
\* cut short.
Variants(s) ==
    {s}
    \cup {[s EXCEPT ![i] = l] : i \in 1..Len(s), l \in ParseLexemes}
    \cup {SubSeq(s, 1, i - 1) \o SubSeq(s, i + 1, Len(s)) : i \in 1..Len(s)}
    \cup {SubSeq(s, 1, i) : i \in 1..Len(s)}

SeqsUpTo(S, n) == UNION {[1..k -> S] : k \in 0..n}

Texts ==
    {Concat(cs) : cs \in SeqsUpTo(LexChunks, MaxChunks)}
    \cup {Join(ls) : ls \in SeqsUpTo(ParseLexemes, MaxToks)}
    \cup {Join(ls) : ls \in SeqsUpTo(ExprLexemes, MaxExprToks)}
    \cup {Join(ls) : ls \in UNION {Variants(s) : s \in Samples}}

\* ---------------------------------------------------------------- nodes

\* No value: the return register when no call has just returned.
NoNode == [tag |-> "none"]

Definition(name, formals, body) ==
    [body |-> body, formals |-> formals, name |-> name, tag |-> "def"]
\* The operands of a binary node exchanged.
BinaryOpSwapped(op, left, right) == [rand1 |-> right, rand2 |-> left, tag |-> op[1]]

\* op is the operator token's text, one character; a tag is that character.
BinaryOp(op, left, right) == [rand1 |-> left, rand2 |-> right, tag |-> op[1]]
Not(operand) == [tag |-> "~", rand1 |-> operand]
BoolLiteral(value) == [tag |-> "bool", value |-> value]
Identifier(name) == [name |-> name, tag |-> "id"]
Application(name, args) == [args |-> args, name |-> name, tag |-> "app"]

\* --------------------------------------------------------------- parser

\* An activation of a Parser method: fn is the method, pc the source line it
\* resumes at, and name/list/node/op its locals (name; result, formals or
\* args; left; op).
Frame(fn, line) ==
    [fn |-> fn, pc |-> line, name |-> <<>>, list |-> <<>>, node |-> NoNode,
     op |-> <<>>]

top == stack[Len(stack)]
InFrame(fn) == pc = "parse_program" /\ stack # <<>> /\ top.fn = fn

\* main before it reads its input.
Init ==
    /\ text = <<>>
    /\ pc = "read"
    /\ tokens = <<>>
    /\ position = 0
    /\ current_token = None
    /\ stack = <<>>
    /\ ret = NoNode
    /\ result = <<>>
    /\ outcome = "running"
    /\ err = [expected |-> "", got |-> <<>>, position |-> -1]

\* main, line 134: the text is whatever the standard input holds.
read ==
    /\ pc = "read"
    /\ text' \in Texts
    /\ pc' = "Lexer"
    /\ UNCHANGED <<tokens, position, current_token, stack, ret, result, outcome, err>>

\* main, line 135: Lexer(text) tokenizes the whole text or raises RuntimeError,
\* which main catches (exit status 1).
Lexer ==
    /\ pc = "Lexer"
    /\ LET r == tokenize(text) IN
       IF r.ok
       THEN /\ tokens' = r.tokens
            /\ pc' = "Parser"
            /\ UNCHANGED <<outcome, err>>
       ELSE /\ outcome' = "RuntimeError"
            /\ err' = [expected |-> "", got |-> r.value, position |-> r.position]
            /\ pc' = "exit"
            /\ UNCHANGED tokens
    /\ UNCHANGED <<text, position, current_token, stack, ret, result>>

\* Lexer.consume without the increment of the cursor.
lexer_consume_stuck ==
    /\ current_token' = peek
    /\ position' = position

\* Lexer.consume: the token under the cursor (None past the end), and the
\* cursor moves on.
lexer_consume ==
    /\ current_token' = peek
    /\ position' = position + 1

\* main, lines 136-137: Parser(lexer) reads the first token, then
\* parse_program is entered.
Parser ==
    /\ pc = "Parser"
    /\ lexer_consume
    /\ pc' = "parse_program"
    /\ stack' = <<Frame("parse_program", 69)>>
    /\ UNCHANGED <<text, tokens, ret, result, outcome, err>>

\* One step of the running method: the stack and the return register change,
\* and the lookahead moves on when the step ends in Lexer.consume.
Go(newStack, newRet, advance) ==
    /\ stack' = newStack
    /\ ret' = newRet
    /\ IF advance THEN lexer_consume ELSE UNCHANGED <<current_token, position>>
    /\ UNCHANGED <<text, pc, tokens, result, outcome, err>>

\* The running method goes on at frame f, after a successful consume.
Continue(f) == Go([stack EXCEPT ![Len(stack)] = f], NoNode, TRUE)
\* The running method, suspended as f, calls the method of frame callee.
Call(f, callee) == Go(Append([stack EXCEPT ![Len(stack)] = f], callee), NoNode, FALSE)
\* The running method returns val, after a consume when advance holds.
Return(val, advance) == Go(SubSeq(stack, 1, Len(stack) - 1), val, advance)

\* Parser.error reporting the lexer's cursor instead of the token's position.
error_at_cursor(expected) ==
    /\ outcome' = "SyntaxError"
    /\ err' = [expected |-> expected, got |-> current_token.value,
               position |-> position]
    /\ stack' = <<>>
    /\ pc' = "exit"
    /\ UNCHANGED <<text, tokens, position, current_token, ret, result>>

\* Parser.error: SyntaxError with the expected description and the current
\* token's value and position; it unwinds to main, which exits with status 1.
error(expected) ==
    /\ outcome' = "SyntaxError"
    /\ err' = [expected |-> expected, got |-> current_token.value,
               position |-> current_token.position]
    /\ stack' = <<>>
    /\ pc' = "exit"
    /\ UNCHANGED <<text, tokens, position, current_token, ret, result>>

\* Parser.consume accepting whatever the lookahead is.
consume_any(expected_type) == TRUE

\* Parser.consume's test: the lookahead has the expected type.
consume(expected_type) == current_token.type = expected_type

\* parse_program: the item loop; at EOF the program is returned to main,
\* which prints it.
parse_program ==
    /\ InFrame("parse_program")
    /\ LET res == IF top.pc = 69 THEN <<>> ELSE Append(top.list, ret) IN
       IF current_token.type # "EOF"
       THEN IF current_token.type = "FN"
            THEN Call([top EXCEPT !.pc = 72, !.list = res],
                      Frame("parse_definition", 78))
            ELSE Call([top EXCEPT !.pc = 74, !.list = res],
                      Frame("parse_expression", 92))
       ELSE /\ result' = res
            /\ outcome' = "Program"
            /\ pc' = "exit"
            /\ stack' = <<>>
            /\ ret' = NoNode
            /\ UNCHANGED <<text, tokens, position, current_token, err>>

\* Line 87 of parse_definition: the token closing the formals.
CloseFormals == IF consume("OP") THEN Continue([top EXCEPT !.pc = 88]) ELSE error("OP")

parse_definition ==
    /\ InFrame("parse_definition")
    /\ CASE top.pc = 78 ->
              IF consume("FN") THEN Continue([top EXCEPT !.pc = 79]) ELSE error("FN")
         [] top.pc = 79 ->
              IF consume("ID")
              THEN Continue([top EXCEPT !.pc = 80, !.name = current_token.value])
              ELSE error("ID")
         [] top.pc = 80 ->
              IF consume("OP") THEN Continue([top EXCEPT !.pc = 82]) ELSE error("OP")
         [] top.pc = 82 ->
              IF current_token.type = "ID"
              THEN Continue([top EXCEPT !.pc = 84, !.list = <<current_token.value>>])
              ELSE CloseFormals
         [] top.pc = 84 ->
              IF current_token.type = "COMMA"
              THEN Continue([top EXCEPT !.pc = 86])
              ELSE CloseFormals
         [] top.pc = 86 ->
              IF consume("ID")
              THEN Continue([top EXCEPT !.pc = 84,
                                        !.list = Append(top.list, current_token.value)])
              ELSE error("ID")
         [] top.pc = 88 ->
              Call([top EXCEPT !.pc = 89], Frame("parse_expression", 92))
         [] top.pc = 89 ->
              Return(Definition(top.name, top.list, ret), FALSE)

\* The loop test of parse_expression with left as computed so far.
ExpressionLoop(left) ==
    IF current_token.value \in {<<"&">>, <<"|">>}
    THEN IF consume("OP")
         THEN Continue([top EXCEPT !.pc = 95, !.node = left, !.op = current_token.value])
         ELSE error("OP")
    ELSE Return(left, FALSE)

parse_expression ==
    /\ InFrame("parse_expression")
    /\ CASE top.pc = 92 ->
              Call([top EXCEPT !.pc = 93], Frame("parse_prefix_expression", 100))
         [] top.pc = 93 -> ExpressionLoop(ret)
         [] top.pc = 95 ->
              Call([top EXCEPT !.pc = 96], Frame("parse_prefix_expression", 100))
         [] top.pc = 96 -> ExpressionLoop(BinaryOp(top.op, top.node, ret))

\* parse_prefix_expression whose operand (line 102) is a whole expression, so
\* that '~' binds looser than '&' and '|'.
parse_prefix_expression_loose ==
    /\ InFrame("parse_prefix_expression")
    /\ CASE top.pc = 100 ->
              IF current_token.value = <<"~">>
              THEN IF consume("OP") THEN Continue([top EXCEPT !.pc = 102])
                   ELSE error("OP")
              ELSE Call([top EXCEPT !.pc = 104],
                        Frame("parse_primary_expression", 107))
         [] top.pc = 102 ->
              Call([top EXCEPT !.pc = 103], Frame("parse_expression", 92))
         [] top.pc = 103 -> Return(Not(ret), FALSE)
         [] top.pc = 104 -> Return(ret, FALSE)

parse_prefix_expression ==
    /\ InFrame("parse_prefix_expression")
    /\ CASE top.pc = 100 ->
              IF current_token.value = <<"~">>
              THEN IF consume("OP") THEN Continue([top EXCEPT !.pc = 102])
                   ELSE error("OP")
              ELSE Call([top EXCEPT !.pc = 104],
                        Frame("parse_primary_expression", 107))
         [] top.pc = 102 ->
              Call([top EXCEPT !.pc = 103], Frame("parse_prefix_expression", 100))
         [] top.pc = 103 -> Return(Not(ret), FALSE)
         [] top.pc = 104 -> Return(ret, FALSE)

\* Line 111 asking for a parenthesis that touches the identifier in the text.
IsCallAdjacent ==
    /\ current_token.value = <<"(">>
    /\ current_token.position
         = tokens[position - 1].position + Len(tokens[position - 1].value)

\* Line 111: is the token after the identifier an opening parenthesis?
IsCall == current_token.value = <<"(">>

parse_primary_expression ==
    /\ InFrame("parse_primary_expression")
    /\ CASE top.pc = 107 ->
              IF current_token.type = "BOOL"
              THEN Return(BoolLiteral(current_token.value), TRUE)
              ELSE IF current_token.type = "ID"
              THEN Continue([top EXCEPT !.pc = 111, !.name = current_token.value])
              ELSE IF current_token.value = <<"(">>
              THEN IF consume("OP") THEN Continue([top EXCEPT !.pc = 116])
                   ELSE error("OP")
              ELSE error("primary expression")
         [] top.pc = 111 ->
              IF IsCall
              THEN Call([top EXCEPT !.pc = 112],
                        [Frame("parse_function_application", 122)
                            EXCEPT !.name = top.name])
              ELSE Return(Identifier(top.name), FALSE)
         [] top.pc = 112 -> Return(ret, FALSE)
         [] top.pc = 116 ->
              Call([top EXCEPT !.pc = 117], Frame("parse_expression", 92))
         [] top.pc = 117 ->
              IF consume("OP") THEN Return(ret, TRUE) ELSE error("OP")

\* Line 129 of parse_function_application: the token closing the arguments.
CloseArgs(args) ==
    IF consume("OP") THEN Return(Application(top.name, args), TRUE) ELSE error("OP")

parse_function_application ==
    /\ InFrame("parse_function_application")
    /\ CASE top.pc = 122 ->
              IF consume("OP") THEN Continue([top EXCEPT !.pc = 124]) ELSE error("OP")
         [] top.pc = 124 ->
              IF current_token.value # <<")">>
              THEN Call([top EXCEPT !.pc = 125], Frame("parse_expression", 92))
              ELSE CloseArgs(<<>>)
         [] top.pc = 125 ->
              IF current_token.type = "COMMA"
              THEN Continue([top EXCEPT !.pc = 128, !.list = Append(top.list, ret)])
              ELSE CloseArgs(Append(top.list, ret))
         [] top.pc = 128 ->
              Call([top EXCEPT !.pc = 125], Frame("parse_expression", 92))

Next ==
    \/ read
    \/ Lexer
    \/ Parser
    \/ parse_program
    \/ parse_definition
    \/ parse_expression
    \/ parse_prefix_expression
    \/ parse_primary_expression
    \/ parse_function_application

Spec == Init /\ [][Next]_vars


\* ------------------------------------------------------- lexer properties

\* Tokenization is over and did not raise.
Tokenized == pc \notin {"read", "Lexer"} /\ outcome # "RuntimeError"

\* The character at index i (from 1) lies in a comment: a '#' precedes it on
\* its line.
InComment(i) ==
    \E j \in 1..(i - 1) : text[j] = "#" /\ \A k \in j..(i - 1) : text[k] # "\n"

\* The index (from 1) at which the maximal run of identifier characters
\* around index i begins.
RECURSIVE RunStart(_)
RunStart(i) == IF i > 1 /\ text[i - 1] \in IdChars THEN RunStart(i - 1) ELSE i

\* The character at index i belongs to no token of the token kinds: it can
\* begin none, continues no identifier (a run that starts with a letter) and is
\* not in a comment.
Illegal(i) ==
    /\ text[i] \notin Letters \cup OpChars \cup WhitespaceChars \cup {"#", ","}
    /\ ~InComment(i)
    /\ ~(text[i] \in IdChars /\ text[RunStart(i)] \in Letters)

IllegalPlaces == {i \in 1..Len(text) : Illegal(i)}

Min(S) == CHOOSE x \in S : \A y \in S : x <= y

KeywordTexts == {<<"f", "n">>, <<"t", "r", "u", "e">>, <<"f", "a", "l", "s", "e">>}

\* C2: every maximal run of letters, digits, hyphens and underscores that
\* starts with a letter is one token, which is FnKeyword or BoolLiteral exactly
\* when the whole run is fn, true or false: so each such token begins and ends
\* where its run does, and its kind follows from its whole text.
C2_MaximalRunIsOneToken ==
    Tokenized =>
        \A i \in 1..Len(tokens) :
            LET t == tokens[i]
                first == t.position + 1
                last == t.position + Len(t.value)
            IN  t.type \in {"FN", "BOOL", "ID"} =>
                    /\ first = RunStart(first)
                    /\ last = Len(text) \/ text[last + 1] \notin IdChars
                    /\ t.type = "FN" <=> t.value = <<"f", "n">>
                    /\ t.type = "BOOL" <=> t.value \in KeywordTexts \ {<<"f", "n">>}

\* C4: a text with an illegal character outside comments ends in a lexical
\* error at the leftmost such character and in nothing else: no token
\* sequence, no parser step, no program.
C4_LeftmostIllegalCharacter ==
    (pc \notin {"read", "Lexer"} /\ IllegalPlaces # {}) =>
        /\ outcome = "RuntimeError"
        /\ err.position = Min(IllegalPlaces) - 1
        /\ tokens = <<>> /\ position = 0 /\ stack = <<>> /\ result = <<>>

\* The text holds nothing but whitespace and comments.
Blank == \A i \in 1..Len(text) : text[i] \in WhitespaceChars \cup {"#"} \/ InComment(i)

\* C5: a successful tokenization ends with EndOfInput at the length of the
\* text, holds EndOfInput once and no Comment, Whitespace or Invalid token, and
\* is that one token when the text is empty or only whitespace and comments.
C5_EndOfInputLast ==
    Tokenized =>
        /\ tokens # <<>>
        /\ tokens[Len(tokens)] = [type |-> "EOF", value |-> <<>>, position |-> Len(text)]
        /\ \A i \in 1..(Len(tokens) - 1) :
              tokens[i].type \in {"FN", "BOOL", "ID", "OP", "COMMA"}
        /\ Blank => Len(tokens) = 1

\* A comment between whitespace tokenizes to EndOfInput alone.
C5_Witness ==
    /\ Tokenized
    /\ Len(text) = 3 /\ text[1] = " " /\ text[2] = "#" /\ text[3] = "\n"
    /\ Len(tokens) = 1 /\ tokens[1].position = 3

\* ------------------------------------------------------ parser properties

\* The tokens before EndOfInput.
body == SubSeq(tokens, 1, Len(tokens) - 1)

IsAtom(t) == t.type \in {"ID", "BOOL"}
IsBinary(t) == t.value \in {<<"&">>, <<"|">>}
IsNegation(t) == t.value = <<"~">>

\* The node of an operand token.
AtomTree(t) ==
    IF t.type = "BOOL" THEN [tag |-> "bool", value |-> t.value]
    ELSE [name |-> t.value, tag |-> "id"]

\* A unary operand: negations, then one identifier or boolean.
UnaryOK(seg) ==
    /\ seg # <<>>
    /\ IsAtom(seg[Len(seg)])
    /\ \A i \in 1..(Len(seg) - 1) : IsNegation(seg[i])

RECURSIVE UnaryTree(_)
UnaryTree(seg) ==
    IF IsNegation(seg[1]) THEN [tag |-> "~", rand1 |-> UnaryTree(Tail(seg))]
    ELSE AtomTree(seg[1])

\* The index of the last binary operator of toks, 0 when there is none.
LastBinary(toks) ==
    LET S == {i \in 1..Len(toks) : IsBinary(toks[i])}
    IN  IF S = {} THEN 0 ELSE CHOOSE i \in S : \A j \in S : j <= i

\* toks is u1 op1 u2 ... un: unary operands separated by '&' and '|'.
RECURSIVE ChainOK(_)
ChainOK(toks) ==
    LET k == LastBinary(toks) IN
    IF k = 0 THEN UnaryOK(toks)
    ELSE /\ ChainOK(SubSeq(toks, 1, k - 1))
         /\ UnaryOK(SubSeq(toks, k + 1, Len(toks)))

\* The left-to-right fold of the chain toks.
RECURSIVE ChainTree(_)
ChainTree(toks) ==
    LET k == LastBinary(toks) IN
    IF k = 0 THEN UnaryTree(toks)
    ELSE [rand1 |-> ChainTree(SubSeq(toks, 1, k - 1)),
          rand2 |-> UnaryTree(SubSeq(toks, k + 1, Len(toks))),
          tag |-> toks[k].value[1]]

\* The parse of a chain of unary operands is over.
ChainParsed == pc = "exit" /\ Tokenized /\ ChainOK(body)

\* Where the grammar requires '(': after the name of a definition (line 80)
\* and at the start of an application's arguments (line 122).
OpenParenRequired ==
    \/ InFrame("parse_definition") /\ top.pc = 80
    \/ InFrame("parse_function_application") /\ top.pc = 122

\* Where the grammar requires ')': after the formals (line 87), after a
\* parenthesized expression (line 117) and after the arguments (line 129).
CloseParenRequired ==
    \/ InFrame("parse_definition") /\ top.pc = 82 /\ current_token.type # "ID"
    \/ InFrame("parse_definition") /\ top.pc = 84 /\ current_token.type # "COMMA"
    \/ InFrame("parse_primary_expression") /\ top.pc = 117
    \/ InFrame("parse_function_application") /\ top.pc = 125
          /\ current_token.type # "COMMA"

\* C1: where the grammar requires one specific token, a lookahead of another
\* kind or text is a syntax error: the token consumed where '(' is required
\* is '(', and the token consumed where ')' is required is ')'.
C1_SpecificTokenRequired ==
    [][position' = position + 1 =>
          /\ OpenParenRequired => current_token.value = <<"(">>
          /\ CloseParenRequired => current_token.value = <<")">>]_vars

\* C3: '&' and '|' share one level and associate to the left: a chain of unary
\* operands u1 op1 u2 ... un parses to the one item that is its left-to-right
\* fold.
C3_LeftFold == ChainParsed => outcome = "Program" /\ result = <<ChainTree(body)>>

\* 'a & true | a' has become Or(And(a, true), a).
C3_Witness ==
    /\ ChainParsed
    /\ Len(tokens) = 6 /\ tokens[2].value = <<"&">> /\ tokens[4].value = <<"|">>
    /\ tokens[3].type = "BOOL"
    /\ Len(result) = 1 /\ result[1].tag = "|" /\ result[1].rand1.tag = "&"
    /\ result[1].rand1.rand2.tag = "bool" /\ result[1].rand2.tag = "id"

RECURSIVE Count(_, _), CountAll(_, _)
Count(n, tag) ==
    (IF n.tag = tag THEN 1 ELSE 0)
    + CASE n.tag \in {"&", "|"} -> Count(n.rand1, tag) + Count(n.rand2, tag)
        [] n.tag = "~" -> Count(n.rand1, tag)
        [] n.tag = "app" -> CountAll(n.args, tag)
        [] n.tag = "def" -> Count(n.body, tag)
        [] OTHER -> 0
CountAll(ns, tag) ==
    IF ns = <<>> THEN 0 ELSE Count(Head(ns), tag) + CountAll(Tail(ns), tag)

\* The identifier tokens that '(' follows, and the others.
CalleeTokens ==
    {i \in 1..(Len(tokens) - 1) :
        tokens[i].type = "ID" /\ tokens[i + 1].value = <<"(">>}
PlainTokens ==
    {i \in 1..(Len(tokens) - 1) :
        tokens[i].type = "ID" /\ tokens[i + 1].value # <<"(">>}

RECURSIVE LeadingNegations(_)
LeadingNegations(toks) ==
    IF toks # <<>> /\ IsNegation(toks[1]) THEN 1 + LeadingNegations(Tail(toks)) ELSE 0

\* k Not nodes around node n.
RECURSIVE Negated(_, _)
Negated(k, n) == IF k = 0 THEN n ELSE [tag |-> "~", rand1 |-> Negated(k - 1, n)]

\* The leftmost operand of a tree of binary nodes.
RECURSIVE LeftmostOperand(_)
LeftmostOperand(n) == IF n.tag \in {"&", "|"} THEN LeftmostOperand(n.rand1) ELSE n

\* C8: '~' binds tighter than '&' and '|' and stacks: in a chain that begins
\* with k negations before a primary p, the k nested Not nodes hold p alone
\* and are the left operand of the binary operators that follow.
C8_NegationBindsTighter ==
    (ChainParsed /\ IsNegation(body[1])) =>
        LET k == LeadingNegations(body) IN
        /\ outcome = "Program" /\ Len(result) = 1
        /\ LeftmostOperand(result[1]) = Negated(k, AtomTree(body[k + 1]))

\* '~ ~ a & true' has become And(Not(Not(a)), true).
C8_Witness ==
    /\ ChainParsed
    /\ Len(tokens) = 6 /\ LeadingNegations(body) = 2 /\ tokens[4].value = <<"&">>
    /\ result[1].tag = "&" /\ result[1].rand1.tag = "~"
    /\ result[1].rand1.rand1.tag = "~" /\ result[1].rand1.rand1.rand1.tag = "id"
    /\ result[1].rand2.tag = "bool"

\* The weight of a pending frame: what it may still do without consuming a
\* token (the calls it has yet to make, then its return).
Weight(f) ==
    CASE f.fn = "parse_program" /\ f.pc = 69 -> 7
      [] f.fn = "parse_definition" /\ f.pc = 88 -> 7
      [] f.fn = "parse_expression" /\ f.pc \in {92, 95} -> 5
      [] f.fn = "parse_prefix_expression" /\ f.pc = 100 -> 3
      [] f.fn = "parse_prefix_expression" /\ f.pc = 102 -> 5
      [] f.fn = "parse_primary_expression" /\ f.pc \in {111, 116} -> 7
      [] f.fn = "parse_function_application" /\ f.pc \in {124, 128} -> 7
      [] OTHER -> 1

RECURSIVE TotalWeight(_)
TotalWeight(fs) == IF fs = <<>> THEN 0 ELSE Weight(Head(fs)) + TotalWeight(Tail(fs))

\* The work the parser can still do before it must consume a token: the
\* pending frames, and a returned value not yet taken by the caller.
Potential == TotalWeight(stack) + (IF ret = NoNode THEN 0 ELSE 6)

\* C9: the parse of a token sequence ends, in a Program or in a syntax error
\* and never both: every step of the parser consumes a token, ends the parse
\* or lowers the potential, so that no loop and no recursion goes on without
\* consuming; and the cursor is bounded by the number of tokens.
C9_Terminates ==
    [][pc = "parse_program" =>
          /\ position' = position + 1 \/ pc' = "exit" \/ Potential' < Potential
          /\ position' <= Len(tokens)
          /\ pc' = "exit" =>
                \/ outcome' = "Program" /\ err'.position = -1
                \/ outcome' = "SyntaxError" /\ result' = <<>>]_vars

\* A definition with two formals whose body applies a function to two
\* arguments has been parsed: the comma loops and the operator loop have run.
C9_Witness ==
    /\ outcome = "Program" /\ Len(result) = 1
    /\ result[1].tag = "def" /\ Len(result[1].formals) = 2
    /\ result[1].body.tag = "&" /\ result[1].body.rand2.tag = "app"
    /\ Len(result[1].body.rand2.args) = 2

\* C10: the lookahead of a running parse is the token under the cursor, a
\* real token; EndOfInput is never consumed, the cursor never passes the
\* number of tokens, and it moves by one per consume and never back.
C10_LookaheadIsRealToken ==
    [][/\ position' = position \/ position' = position + 1
       /\ (position' = position + 1 /\ pc = "parse_program") =>
             current_token.type # "EOF"
       /\ (pc' = "parse_program" \/ outcome' \in {"Program", "SyntaxError"}) =>
             /\ position' >= 1 /\ position' <= Len(tokens')
             /\ current_token' = tokens'[position']
             /\ current_token'.type # "None"]_vars

\* A parse has ended with the cursor on EndOfInput, the last token, after
\* three consumes.
C10_Witness ==
    /\ outcome = "Program"
    /\ Len(tokens) = 4 /\ position = 4 /\ current_token.type = "EOF"
====
